---- MODULE Spec2Model ----
(***************************************************************************)
(* The ingress canary controller: the polling loop that probes the canary  *)
(* route and rotates its target port, the port chooser and the probe.      *)
(* Strings the code inspects (response body, request-port header, the      *)
(* printed target port) are sequences of one-character strings.            *)
(***************************************************************************)
EXTENDS Integers, Sequences, FiniteSets, TLC

VARIABLES
    count,      \* startCanaryRoutePolling: the closure's local counter
    route,      \* the canary Route held by the API server
    service,    \* the canary Service held by the API server
    last,       \* what the most recent tick of the loop did
    crashed,    \* TRUE once a panic has ended the process
    namespace,  \* whether the API server holds the canary namespace
    deployment, \* whether the API server holds the canary Deployment
    rlast,      \* what the most recent Reconcile did
    running,    \* the runs of the polling function that are in progress
    reconciling, \* the Reconcile requests that are in progress
    stopped,    \* TRUE once the stop channel given to New is closed
    exchanges,  \* what the HTTP exchange with the canary host can produce
    cin,        \* arguments of a direct call of chooseRandomServicePort or
                \* updateCanaryRoute
    cout        \* what that call produced (for updateCanaryRoute: what
                \* each of the successive calls produced)

vars == <<count, route, service, last, crashed, namespace, deployment, rlast,
          running, reconciling, stopped, exchanges, cin, cout>>

----------------------------------------------------------------------------
(* Bounds of the model *)

\* longest Service port list given to a direct call of chooseRandomServicePort
MaxPorts == 3
\* longest port list of the Service the polling loop runs against
MaxSvcPorts == 2
\* most successive direct calls of updateCanaryRoute
MaxApplies == 3

----------------------------------------------------------------------------
(* Strings *)

Digits == <<"0", "1", "2", "3", "4", "5", "6", "7", "8", "9">>

\* strconv.Itoa for n >= 0
RECURSIVE Itoa(_)
Itoa(n) == IF n < 10 THEN <<Digits[n + 1]>>
           ELSE Itoa(n \div 10) \o <<Digits[(n % 10) + 1]>>

\* strings.Contains(s, sub)
Contains(s, sub) ==
    \E i \in 0..(Len(s) - Len(sub)) : SubSeq(s, i + 1, i + Len(sub)) = sub

----------------------------------------------------------------------------
(* intstr.IntOrString, the type of a target port *)

IntPort(n) == [Type |-> "Int", IntVal |-> n, StrVal |-> <<>>]
StrPort(s) == [Type |-> "String", IntVal |-> 0, StrVal |-> s]
\* route.Spec.Port == nil
NoPort == [Type |-> "nil", IntVal |-> 0, StrVal |-> <<>>]

\* IntOrString.String()
PortString(p) == IF p.Type = "String" THEN p.StrVal ELSE Itoa(p.IntVal)

\* target ports of the canary Service the loop runs against
LoopPorts == {IntPort(8080), IntPort(8888)}
\* target ports given to a direct call of chooseRandomServicePort
PortVals == LoopPorts \cup {IntPort(80), StrPort(<<"8", "0", "8", "0">>)}

SeqsUpTo(S, n) == UNION {[1..k -> S] : k \in 0..n}

----------------------------------------------------------------------------
(* chooseRandomServicePort *)

\* variant: the draw always yields 0
RandIntnFirst(n) == {0}

\* the values rand.Intn(n) returns; it panics when n <= 0
RandIntn(n) == 0..(n - 1)

\* variant: the filter is skipped
AvailablePortsUnfiltered(servicePorts, currentPort) == servicePorts

\* variant: only the first occurrence of currentPort is filtered out
AvailablePortsDropsFirst(servicePorts, currentPort) ==
    LET at == {i \in 1..Len(servicePorts) : servicePorts[i] = currentPort} IN
    IF at = {} THEN servicePorts
    ELSE LET k == CHOOSE i \in at : \A j \in at : i <= j IN
         SubSeq(servicePorts, 1, k - 1) \o SubSeq(servicePorts, k + 1, Len(servicePorts))

\* the loop that filters currentPort from servicePorts (cmp.Equal on the
\* IntOrString values)
AvailablePorts(servicePorts, currentPort) ==
    SelectSeq(servicePorts, LAMBDA p : p # currentPort)

ChooseErr(e) == [kind |-> "err", err |-> e, port |-> NoPort]
ChoosePanic  == [kind |-> "panic", err |-> "", port |-> NoPort]
ChooseOk(p)  == [kind |-> "ok", err |-> "", port |-> p]

\* every outcome of chooseRandomServicePort(service, route): an error, a
\* panic (currentPort.TargetPort of a Route without a port; rand.Intn(0) when
\* every port equals the current one), or the updated route's target port
chooseRandomServicePort(servicePorts, currentPort) ==
    IF Len(servicePorts) = 0 THEN {ChooseErr("Service has no ports")}
    ELSE IF Len(servicePorts) = 1
    THEN {ChooseErr("Service has only one port, no change possible")}
    ELSE IF currentPort = NoPort THEN {ChoosePanic}
    ELSE LET availablePorts == AvailablePorts(servicePorts, currentPort) IN
         IF Len(availablePorts) = 0 THEN {ChoosePanic}
         ELSE {ChooseOk(availablePorts[i + 1]) : i \in RandIntn(Len(availablePorts))}

----------------------------------------------------------------------------
(* canaryRouteChanged, updateCanaryRoute, rotateRouteEndpoint *)

\* a slice of a Spec: nil, empty, or with items
NilList == [isNil |-> TRUE, items |-> <<>>]
EmptyList == [isNil |-> FALSE, items |-> <<>>]
ListOf(items) == [isNil |-> FALSE, items |-> items]

\* controller.CanaryRouteName().Name and controller.CanaryServiceName().Name
CanaryRouteName == "ingress-canary-route"
CanaryServiceName == "ingress-canary"

\* the fields of routev1.RouteSpec: to is Spec.To.Name, port is
\* Spec.Port.TargetPort (NoPort for a nil Spec.Port), tls is the termination
\* of Spec.TLS ("" for a nil Spec.TLS)
SpecFields ==
    {"host", "subdomain", "path", "to", "alternateBackends", "port", "tls",
     "wildcardPolicy"}

\* a Route: its name stands for its metadata, the fields of SpecFields are
\* its Spec. NoRoute is a nil *Route.
NoRoute ==
    [exists |-> FALSE, name |-> "", host |-> "", subdomain |-> "",
     path |-> "", to |-> "", alternateBackends |-> NilList, port |-> NoPort,
     tls |-> "", wildcardPolicy |-> ""]

\* manifests.CanaryRoute(): the Route of the manifest, before
\* desiredCanaryRoute names it and sets Spec.To.Name and the target port
ManifestRoute == [NoRoute EXCEPT !.exists = TRUE, !.port = IntPort(80)]

\* the Route of the given name that serves the canary Service on a host
\* and a target port
CanaryRoute(host, port) ==
    [ManifestRoute EXCEPT !.name = CanaryRouteName, !.to = CanaryServiceName,
                          !.host = host, !.port = port]

\* the Spec of a Route
RouteSpec(r) == [f \in SpecFields |-> r[f]]

\* a copy of the Route r with its Spec replaced by the Spec of e
WithSpec(r, e) == [f \in DOMAIN r |-> IF f \in SpecFields THEN e[f] ELSE r[f]]

\* cmpopts.EquateEmpty: an empty slice counts as a nil one
EquateEmpty(spec) ==
    [spec EXCEPT !.alternateBackends =
        IF Len(@.items) = 0 THEN NilList ELSE @]

\* variant: cmp.Equal without cmpopts.EquateEmpty
SpecsEqualStrict(current, expected) == RouteSpec(current) = RouteSpec(expected)

\* cmp.Equal(current.Spec, expected.Spec, cmpopts.EquateEmpty())
SpecsEqual(current, expected) ==
    EquateEmpty(RouteSpec(current)) = EquateEmpty(RouteSpec(expected))

\* variant: the Route to write keeps current's Spec
canaryRouteChangedKeepsSpec(current, expected) ==
    [changed |-> ~SpecsEqual(current, expected), updated |-> current]

\* canaryRouteChanged(current, expected): changed, and the Route to write
\* (a copy of current with expected's Spec), nil when nothing changed
canaryRouteChanged(current, expected) ==
    IF ~SpecsEqual(current, expected)
    THEN [changed |-> TRUE,
          updated |-> WithSpec(current, expected)]
    ELSE [changed |-> FALSE, updated |-> NoRoute]

\* updateCanaryRoute(current, desired) when client.Update answers upd
\* ("ok" or "err"): the Update it issued, the Route now stored, its error
updateCanaryRoute(current, desired, upd) ==
    LET c == canaryRouteChanged(current, desired) IN
    IF ~c.changed THEN [issued |-> FALSE, stored |-> current, err |-> FALSE]
    ELSE IF upd = "err" THEN [issued |-> TRUE, stored |-> current, err |-> TRUE]
    ELSE [issued |-> TRUE, stored |-> c.updated, err |-> FALSE]

\* rotateRouteEndpoint(service, current) for one outcome of the chooser and
\* one answer of client.Update
rotateRouteEndpoint(current, choice, upd) ==
    IF choice.kind = "panic"
    THEN [kind |-> "panic", stored |-> current, issued |-> FALSE]
    ELSE IF choice.kind = "err"
    THEN [kind |-> "chooseErr", stored |-> current, issued |-> FALSE]
    ELSE LET u == updateCanaryRoute(current,
                                    [current EXCEPT !.port = choice.port], upd)
         IN  IF u.err
             THEN [kind |-> "applyErr", stored |-> current, issued |-> u.issued]
             ELSE [kind |-> "rotated", stored |-> u.stored, issued |-> u.issued]

----------------------------------------------------------------------------
(* testRouteEndpoint *)

\* expectedBodyContents
Marker == <<"H", "e", "l", "l", "o", " ", "O", "p", "e", "n",
            "S", "h", "i", "f", "t", "!">>

NoResponse == [err |-> "unsent", status |-> 0, body |-> <<>>, header |-> <<>>]

\* what the HTTP exchange of one probe can produce: an error of client.Do
\* (DNS, connection refused, client timeout), an error reading the body, or
\* a response with a status, a body and a request-port header ("" if absent)
SendErrors == {"dns", "refused", "timeout", "read"}
Statuses == {200, 408, 503, 404}
Bodies == {<<>>, Marker \o <<"\n">>, <<"H", "e", "l", "l", "o">>}
Headers == {<<>>, <<"8", "0", "8", "0">>, <<"8", "8", "8", "8">>, <<"8", "0">>}
Responses ==
    {[err |-> e, status |-> 0, body |-> <<>>, header |-> <<>>] : e \in SendErrors}
    \cup {[err |-> "none", status |-> s, body |-> b, header |-> h] :
            s \in Statuses, b \in Bodies, h \in Headers}

Call(op, host) == [op |-> op, host |-> host]

\* variant: a failure records a latency sample too
FailureObservesLatency(class, sent, calls) ==
    [success |-> FALSE, panic |-> FALSE, class |-> class, sent |-> sent,
     calls |-> calls \o <<Call("ObserveLatency", "")>>]

\* variant: the error of a request is not inspected for a DNS error
FailureDNSNotTold(class, sent, calls) ==
    [success |-> FALSE, panic |-> FALSE,
     class |-> IF class = "DNSFailure" THEN "TransportFailure" ELSE class,
     sent |-> sent, calls |-> calls]

\* variant: the request is sent before any failure is reported
FailureAfterSending(class, sent, calls) ==
    [success |-> FALSE, panic |-> FALSE, class |-> class, sent |-> TRUE,
     calls |-> calls]

\* variant: a missing request-port header counts as a wedged router
FailureMissingHeaderIsWedged(class, sent, calls) ==
    [success |-> FALSE, panic |-> FALSE, class |-> class, sent |-> sent,
     calls |-> IF class = "MissingPortHeader"
               THEN calls \o <<Call("WrongPortEchoInc", "")>> ELSE calls]

Failure(class, sent, calls) ==
    [success |-> FALSE, panic |-> FALSE, class |-> class, sent |-> sent,
     calls |-> calls]

\* variant: no header is accepted as naming the route's port
PortMatchesNever(routePortStr, recPort) == FALSE

\* the port check of testRouteEndpoint: TRUE when the request counts as
\* received on the route's port
PortMatches(routePortStr, recPort) == Contains(routePortStr, recPort)

\* testRouteEndpoint(route) when the HTTP exchange produces resp: the bool it
\* returns, the failure it reports, whether a request was sent, and the
\* calls it makes on the metrics. With the body and the header accepted it
\* dereferences route.Spec.Port, which panics for a Route without a port.
\* (createRequest cannot fail: a Route's host is a DNS name.)
testRouteEndpoint(rt, resp) ==
    IF rt.host = "" THEN Failure("RouteNotReady", FALSE, <<>>)
    ELSE IF resp.err = "dns" THEN Failure("DNSFailure", TRUE, <<>>)
    ELSE IF resp.err \in {"refused", "timeout"}
    THEN Failure("TransportFailure", TRUE, <<>>)
    ELSE IF resp.err = "read" THEN Failure("BodyReadFailure", TRUE, <<>>)
    ELSE IF Len(resp.body) = 0 THEN Failure("EmptyBody", TRUE, <<>>)
    ELSE IF ~Contains(resp.body, Marker) THEN Failure("UnexpectedBody", TRUE, <<>>)
    ELSE IF Len(resp.header) = 0 THEN Failure("MissingPortHeader", TRUE, <<>>)
    ELSE IF rt.port = NoPort
    THEN [success |-> FALSE, panic |-> TRUE, class |-> "panic", sent |-> TRUE,
          calls |-> <<>>]
    ELSE IF ~PortMatches(PortString(rt.port), resp.header)
    THEN Failure("WrongPortEcho", TRUE, <<Call("WrongPortEchoInc", "")>>)
    ELSE CASE resp.status = 200 ->
                [success |-> TRUE, panic |-> FALSE, class |-> "StatusOK",
                 sent |-> TRUE, calls |-> <<Call("ObserveLatency", rt.host)>>]
           [] resp.status = 408 -> Failure("StatusTimeout", TRUE, <<>>)
           [] resp.status = 503 -> Failure("StatusUnavailable", TRUE, <<>>)
           [] OTHER -> Failure("StatusUnexpected", TRUE, <<>>)

----------------------------------------------------------------------------
(* The API server's answers and the polling loop *)

\* the loop rotates when count == 6
RotationPeriod == 6

HostName == "canary.apps.example.com"

\* client.Get and client.Update either answer or fail; a Get that answers
\* reports a resource the server does not hold as not found
GetAnswers == {"ok", "err"}
UpdateAnswers == {"ok", "err"}

\* currentCanaryRoute
currentCanaryRoute(rt, get) ==
    IF get = "err" THEN [have |-> FALSE, err |-> TRUE]
    ELSE IF ~rt.exists THEN [have |-> FALSE, err |-> FALSE]
    ELSE [have |-> TRUE, err |-> FALSE]

\* currentCanaryService
currentCanaryService(svc, get) ==
    IF get = "err" THEN [have |-> FALSE, err |-> TRUE]
    ELSE IF ~svc.exists THEN [have |-> FALSE, err |-> FALSE]
    ELSE [have |-> TRUE, err |-> FALSE]

\* what one tick did
\*   fetch     how reading the Route and the Service went
\*   rotation  how rotateRouteEndpoint ended, "none" if it was not called
\*   issued    whether client.Update was called
\*   probed    whether testRouteEndpoint was called
\*   sent      whether an HTTP request was sent, resp what came of it
\*   success   the bool testRouteEndpoint returned
\*   class     the failure testRouteEndpoint reported, or StatusOK
\*   calls     the calls made on the metrics, in order
\*   count0    the counter, route0 the Route read, as the tick began
Observed(fetch, rot, cnt, rt) ==
    [fetch |-> fetch, rotation |-> rot.kind, issued |-> rot.issued,
     probed |-> FALSE, sent |-> FALSE, resp |-> NoResponse,
     success |-> FALSE, class |-> "",
     calls |-> <<>>, count0 |-> cnt, route0 |-> rt]

NoRotation == [kind |-> "none", issued |-> FALSE]

NotRun == Observed("none", NoRotation, 0, NoRoute)

TickResult(cnt, rt, dead, obs) ==
    [count |-> cnt, route |-> rt, crashed |-> dead, last |-> obs]

\* variant: a failed read resets the counter
AbortedResetsCount(fetch, cnt, rt) ==
    TickResult(0, rt, FALSE, Observed(fetch, NoRotation, cnt, rt))

\* a tick that logs the failed read and returns
Aborted(fetch, cnt, rt) ==
    TickResult(cnt, rt, FALSE, Observed(fetch, NoRotation, cnt, rt))

\* variant: count = 0 before the error of rotateRouteEndpoint is looked at
RotateBranchAlwaysResets(cnt, rt, choice, upd) ==
    LET rot == rotateRouteEndpoint(rt, choice, upd) IN
    TickResult(0, rot.stored, rot.kind = "panic", Observed("ok", rot, cnt, rt))

\* variant: count = 0 is missing
RotateBranchNeverResets(cnt, rt, choice, upd) ==
    LET rot == rotateRouteEndpoint(rt, choice, upd) IN
    TickResult(cnt, rot.stored, rot.kind = "panic", Observed("ok", rot, cnt, rt))

\* the rotation branch of the tick, for one outcome of the chooser: the
\* counter is reset after a rotation, and the tick returns either way
RotateBranch(cnt, rt, choice, upd) ==
    LET rot == rotateRouteEndpoint(rt, choice, upd) IN
    TickResult(IF rot.kind = "rotated" THEN 0 ELSE cnt,
               rot.stored, rot.kind = "panic", Observed("ok", rot, cnt, rt))

\* the tick's record once testRouteEndpoint has acted
Probed(cnt, rt, resp, t, calls) ==
    [Observed("ok", NoRotation, cnt, rt) EXCEPT
        !.probed = TRUE, !.sent = t.sent,
        !.resp = IF t.sent THEN resp ELSE NoResponse,
        !.success = t.success, !.class = t.class, !.calls = calls]

\* variant: count++ on every probe that returns
ProbeBranchCountsFailures(cnt, rt, resp) ==
    LET t == testRouteEndpoint(rt, resp) IN
    IF t.panic THEN TickResult(cnt, rt, TRUE, Probed(cnt, rt, resp, t, t.calls))
    ELSE TickResult(cnt + 1, rt, FALSE,
                    Probed(cnt, rt, resp, t,
                           t.calls \o <<Call(IF t.success THEN "SetReachable"
                                             ELSE "SetUnreachable", rt.host)>>))

\* variant: a successful probe counts twice
ProbeBranchCountsTwice(cnt, rt, resp) ==
    LET t == testRouteEndpoint(rt, resp) IN
    IF t.panic THEN TickResult(cnt, rt, TRUE, Probed(cnt, rt, resp, t, t.calls))
    ELSE IF ~t.success
    THEN TickResult(cnt, rt, FALSE,
                    Probed(cnt, rt, resp, t,
                           t.calls \o <<Call("SetUnreachable", rt.host)>>))
    ELSE TickResult(cnt + 2, rt, FALSE,
                    Probed(cnt, rt, resp, t,
                           t.calls \o <<Call("SetReachable", rt.host)>>))

\* the probe branch of the tick: testRouteEndpoint, then the reachability
\* signal for the route's host and, on success, count++
ProbeBranch(cnt, rt, resp) ==
    LET t == testRouteEndpoint(rt, resp) IN
    IF t.panic THEN TickResult(cnt, rt, TRUE, Probed(cnt, rt, resp, t, t.calls))
    ELSE IF ~t.success
    THEN TickResult(cnt, rt, FALSE,
                    Probed(cnt, rt, resp, t,
                           t.calls \o <<Call("SetUnreachable", rt.host)>>))
    ELSE TickResult(cnt + 1, rt, FALSE,
                    Probed(cnt, rt, resp, t,
                           t.calls \o <<Call("SetReachable", rt.host)>>))

\* variant: a tick that rotated goes on to the probe instead of returning
PollOnceProbesAfterRotation(cnt, rt, svc, rget, sget, upd, resp) ==
    LET r == currentCanaryRoute(rt, rget) IN
    IF r.err THEN {Aborted("routeGetErr", cnt, rt)}
    ELSE IF ~r.have THEN {Aborted("routeNotFound", cnt, rt)}
    ELSE IF cnt = RotationPeriod
    THEN LET s == currentCanaryService(svc, sget) IN
         IF s.err THEN {Aborted("serviceGetErr", cnt, rt)}
         ELSE IF ~s.have THEN {Aborted("serviceNotFound", cnt, rt)}
         ELSE {LET rot == RotateBranch(cnt, rt, choice, upd)
                   prb == ProbeBranch(0, rot.route, resp)
               IN  IF rot.last.rotation = "rotated"
                   THEN [prb EXCEPT !.last.rotation = rot.last.rotation,
                                    !.last.issued = rot.last.issued,
                                    !.last.count0 = cnt,
                                    !.last.route0 = rt]
                   ELSE rot :
                 choice \in chooseRandomServicePort(svc.ports, rt.port)}
    ELSE {ProbeBranch(cnt, rt, resp)}

\* one run of the function startCanaryRoutePolling hands to wait.Until: every
\* result it can have for the given answers of the API server and of the
\* probed host (a set: the chooser draws at random)
PollOnce(cnt, rt, svc, rget, sget, upd, resp) ==
    LET r == currentCanaryRoute(rt, rget) IN
    IF r.err THEN {Aborted("routeGetErr", cnt, rt)}
    ELSE IF ~r.have THEN {Aborted("routeNotFound", cnt, rt)}
    ELSE IF cnt = RotationPeriod
    THEN LET s == currentCanaryService(svc, sget) IN
         IF s.err THEN {Aborted("serviceGetErr", cnt, rt)}
         ELSE IF ~s.have THEN {Aborted("serviceNotFound", cnt, rt)}
         ELSE {RotateBranch(cnt, rt, choice, upd) :
                 choice \in chooseRandomServicePort(svc.ports, rt.port)}
    ELSE {ProbeBranch(cnt, rt, resp)}

----------------------------------------------------------------------------
(* The polling loop against an API server *)

Routes ==
    {NoRoute} \cup {CanaryRoute(h, p) :
                       h \in {"", HostName}, p \in LoopPorts \cup {NoPort}}
\* a nil *Service
NoService == [exists |-> FALSE, ports |-> <<>>]
Services ==
    {NoService} \cup {[exists |-> TRUE, ports |-> ps] :
                         ps \in SeqsUpTo(LoopPorts, MaxSvcPorts)}

\* what one Reconcile did
\*   steps    the ensure functions it called, in order
\*   calls    the API calls it made and their answers, in order
\*   created  the resources it created, in order
\*   err      whether it returned an error
\*   route0   the Route it read, NoRoute if it read none
Reconciled(steps, calls, created, err, rt) ==
    [steps |-> steps, calls |-> calls, created |-> created, err |-> err,
     route0 |-> rt]

NotReconciled == Reconciled(<<>>, <<>>, <<>>, FALSE, NoRoute)

NoCall == [ports |-> <<>>, port |-> NoPort]
NoResult == [kind |-> "none", err |-> "", port |-> NoPort]

\* the loop starts with count 0; the Route and the Service are whatever the
\* API server holds
Init ==
    /\ count = 0
    /\ route \in Routes
    /\ service \in Services
    /\ last = NotRun
    /\ crashed = FALSE
    /\ namespace = TRUE
    /\ deployment = TRUE
    /\ rlast = NotReconciled
    /\ running = <<>>
    /\ reconciling = <<>>
    /\ stopped = FALSE
    /\ exchanges = Responses
    /\ cin = NoCall
    /\ cout = NoResult

\* a run of the polling function that waits for an API call or for the HTTP
\* exchange to answer
\*   pc       the call it waits for: "route" the Get of the Route,
\*            "service" the Get of the Service,
\*            "update" client.Update, "request" client.Do before the request
\*            is sent, "response" client.Do once it is sent; "return" when
\*            the Update has answered
\*   route    the Route it read, service the Service it read
\*   out      what it does once the Update has answered
\*   upds     the Updates, reqs the HTTP requests it has made
Run(pc, rt, svc) ==
    [pc |-> pc, route |-> rt, service |-> svc,
     out |-> TickResult(0, NoRoute, FALSE, NotRun), upds |-> 0, reqs |-> 0]

\* wait.Until calls the function in its own goroutine and waits for the next
\* period only once the function has returned
TimerMayFire(runs) == Len(runs) = 0

\* the function publishes what a run came to, sets the counter and returns,
\* or panics
Finish(o) ==
    /\ count' = o.count
    /\ crashed' = o.crashed
    /\ last' = o.last
    /\ running' = <<>>

\* the period elapses, wait.Until finds stop open and calls the function,
\* which calls client.Get of the Route
TickStart ==
    /\ ~crashed
    /\ ~stopped
    /\ TimerMayFire(running)
    /\ running' = <<Run("route", NoRoute, NoService)>>
    /\ UNCHANGED <<count, route, service, last, crashed, namespace, deployment,
                   rlast, reconciling, cin, cout, stopped, exchanges>>

\* the Get of the Route answers: a failed read ends the run, and so does the
\* probe of a Route without host, for which no request is sent
TickRoute ==
    /\ ~crashed
    /\ Len(running) > 0
    /\ running[1].pc = "route"
    /\ \E rget \in GetAnswers :
         LET r == currentCanaryRoute(route, rget) IN
         IF r.err \/ ~r.have
         THEN \E o \in PollOnce(count, route, NoService, rget, "ok", "ok",
                                NoResponse) : Finish(o)
         ELSE IF count = RotationPeriod
         THEN /\ running' = <<Run("service", route, NoService)>>
              /\ UNCHANGED <<count, crashed, last>>
         ELSE IF testRouteEndpoint(route, NoResponse).sent
         THEN /\ running' = <<Run("request", route, NoService)>>
              /\ UNCHANGED <<count, crashed, last>>
         ELSE \E o \in PollOnce(count, route, NoService, "ok", "ok", "ok",
                                NoResponse) : Finish(o)
    /\ UNCHANGED <<route, service, namespace, deployment, rlast, reconciling,
                   cin, cout, stopped, exchanges>>

\* the Get of the Service answers: a failed read ends the run, and so does
\* a chooser that returns an error or panics; otherwise client.Update is
\* called for the Route the chooser returned
TickService ==
    /\ ~crashed
    /\ Len(running) > 0
    /\ running[1].pc = "service"
    /\ \E sget \in GetAnswers :
         LET O == PollOnce(count, running[1].route, service, "ok", sget, "ok",
                           NoResponse)
         IN  IF \E o \in O : o.last.issued
             THEN /\ running' = <<[running[1] EXCEPT !.pc = "update",
                                                      !.service = service]>>
                  /\ UNCHANGED <<count, crashed, last>>
             ELSE \E o \in O : Finish(o)
    /\ UNCHANGED <<route, service, namespace, deployment, rlast, reconciling,
                   cin, cout, stopped, exchanges>>

\* client.Update answers: the API server holds the Route it was sent (the
\* copy the run read, with the chosen target port) unless the Update failed
TickUpdate ==
    /\ ~crashed
    /\ Len(running) > 0
    /\ running[1].pc = "update"
    /\ \E upd \in UpdateAnswers :
         \E o \in PollOnce(count, running[1].route, running[1].service,
                           "ok", "ok", upd, NoResponse) :
            /\ route' = IF o.route # running[1].route THEN o.route ELSE route
            /\ running' = <<[running[1] EXCEPT !.pc = "return", !.out = o,
                                                !.upds = @ + 1]>>
    /\ UNCHANGED <<count, service, last, crashed, namespace, deployment, rlast,
                   reconciling, cin, cout, stopped, exchanges>>

\* testRouteEndpoint calls client.Do, which sends the request
TickRequest ==
    /\ ~crashed
    /\ Len(running) > 0
    /\ running[1].pc = "request"
    /\ running' = <<[running[1] EXCEPT !.pc = "response", !.reqs = @ + 1]>>
    /\ UNCHANGED <<count, route, service, last, crashed, namespace, deployment,
                   rlast, reconciling, cin, cout, stopped, exchanges>>

\* the run ends: after the Update with what the rotation came to, after the
\* request with the classification of what the HTTP exchange produced, the
\* reachability signal and, on success, count++
TickReturn ==
    /\ ~crashed
    /\ Len(running) > 0
    /\ \/ /\ running[1].pc = "return"
          /\ Finish(running[1].out)
       \/ /\ running[1].pc = "response"
          /\ \E resp \in exchanges :
                \E o \in PollOnce(count, running[1].route, running[1].service,
                                  "ok", "ok", "ok", resp) : Finish(o)
    /\ UNCHANGED <<route, service, namespace, deployment, rlast, reconciling,
                   cin, cout, stopped, exchanges>>

\* a step of the polling function
Tick == TickStart \/ TickRoute \/ TickService \/ TickUpdate \/ TickRequest \/ TickReturn

\* the routing layer admits the Route and gives it its host
AdmitRoute ==
    /\ ~crashed
    /\ route.exists
    /\ route.host = ""
    /\ route' = [route EXCEPT !.host = HostName]
    /\ UNCHANGED <<count, service, last, crashed, namespace, deployment, rlast,
                   running, reconciling, cin, cout, stopped, exchanges>>

Next ==
    \/ TickStart \/ TickRoute \/ TickService \/ TickUpdate \/ TickRequest \/ TickReturn
    \/ AdmitRoute

Spec == Init /\ [][Next]_vars

----------------------------------------------------------------------------
(* Direct calls of chooseRandomServicePort *)

InitChoose ==
    /\ count = 0
    /\ route = NoRoute
    /\ service = NoService
    /\ last = NotRun
    /\ crashed = FALSE
    /\ namespace = FALSE
    /\ deployment = FALSE
    /\ rlast = NotReconciled
    /\ running = <<>>
    /\ reconciling = <<>>
    /\ stopped = FALSE
    /\ exchanges = {}
    /\ cin \in {[ports |-> ps, port |-> p] :
                  ps \in SeqsUpTo(PortVals, MaxPorts), p \in PortVals \cup {NoPort}}
    /\ cout = NoResult

Choose ==
    /\ cout = NoResult
    /\ cout' \in chooseRandomServicePort(cin.ports, cin.port)
    /\ UNCHANGED <<count, route, service, last, crashed, namespace, deployment,
                   rlast, running, reconciling, cin, stopped, exchanges>>

NextChoose == Choose

SpecChoose == InitChoose /\ [][NextChoose]_vars

----------------------------------------------------------------------------
(* Reconcile: the namespace, the Deployment, the Service and the Route *)

\* the target ports of manifests.CanaryService()
ManifestServicePorts == <<IntPort(8080), IntPort(8888)>>

\* an API call either answers or fails
ApiAnswers == {"ok", "err"}
ApiCall(call, ans) == [call |-> call, ans |-> ans]

\* ensureCanaryNamespace: the namespace exists afterwards unless the API
\* call fails
ensureCanaryNamespace(ns, ans) ==
    IF ans = "err" THEN [err |-> TRUE, stored |-> ns, created |-> FALSE]
    ELSE [err |-> FALSE, stored |-> TRUE, created |-> ~ns]

\* currentCanaryDeployment
currentCanaryDeployment(dep, get) ==
    IF get = "err" THEN [have |-> FALSE, err |-> TRUE]
    ELSE IF ~dep THEN [have |-> FALSE, err |-> FALSE]
    ELSE [have |-> TRUE, err |-> FALSE]

\* variant: a failed read is taken for not found
ensureCanaryDeploymentCreatesOnError(dep, get, create) ==
    LET c == currentCanaryDeployment(dep, get) IN
    IF c.have
    THEN [have |-> TRUE, err |-> FALSE, stored |-> dep, created |-> FALSE]
    ELSE IF create = "err"
    THEN [have |-> FALSE, err |-> TRUE, stored |-> dep, created |-> FALSE]
    ELSE [have |-> TRUE, err |-> FALSE, stored |-> TRUE, created |-> TRUE]

\* ensureCanaryDeployment: the current Deployment if there is one, else the
\* desired one, created
ensureCanaryDeployment(dep, get, create) ==
    LET c == currentCanaryDeployment(dep, get) IN
    IF c.err THEN [have |-> FALSE, err |-> TRUE, stored |-> dep, created |-> FALSE]
    ELSE IF c.have
    THEN [have |-> TRUE, err |-> FALSE, stored |-> dep, created |-> FALSE]
    ELSE IF create = "err"
    THEN [have |-> FALSE, err |-> TRUE, stored |-> dep, created |-> FALSE]
    ELSE [have |-> TRUE, err |-> FALSE, stored |-> TRUE, created |-> TRUE]

\* desiredCanaryService
desiredCanaryService == [exists |-> TRUE, ports |-> ManifestServicePorts]

\* ensureCanaryService: the current Service if there is one, else the
\* desired one, created; service is the one it returns
ensureCanaryService(svc, get, create) ==
    LET c == currentCanaryService(svc, get) IN
    IF c.err
    THEN [have |-> FALSE, err |-> TRUE, service |-> svc, stored |-> svc,
          created |-> FALSE]
    ELSE IF c.have
    THEN [have |-> TRUE, err |-> FALSE, service |-> svc, stored |-> svc,
          created |-> FALSE]
    ELSE IF create = "err"
    THEN [have |-> FALSE, err |-> TRUE, service |-> svc, stored |-> svc,
          created |-> FALSE]
    ELSE [have |-> TRUE, err |-> FALSE, service |-> desiredCanaryService,
          stored |-> desiredCanaryService, created |-> TRUE]

\* variant: the desired Route is left with the target port of the manifest
desiredCanaryRouteManifestPort(svc) ==
    IF Len(svc.ports) = 0 THEN [panic |-> TRUE, route |-> NoRoute]
    ELSE [panic |-> FALSE,
          route |-> [ManifestRoute EXCEPT !.name = CanaryRouteName,
                                          !.to = CanaryServiceName]]

\* desiredCanaryRoute(service): the Route of the manifest (no host yet) with
\* the target port of the Service's first port; service.Spec.Ports[0] panics
\* for a Service without ports
desiredCanaryRoute(svc) ==
    IF Len(svc.ports) = 0 THEN [panic |-> TRUE, route |-> NoRoute]
    ELSE [panic |-> FALSE,
          route |-> [ManifestRoute EXCEPT !.name = CanaryRouteName,
                                          !.to = CanaryServiceName,
                                          !.port = svc.ports[1]]]

\* variant: an existing Route is updated to the desired target port
ensureCanaryRouteUpdates(rt, svc, get, create) ==
    LET desired == desiredCanaryRoute(svc)
        c == currentCanaryRoute(rt, get)
    IN  IF desired.panic
        THEN [panic |-> TRUE, have |-> FALSE, err |-> FALSE, stored |-> rt,
              created |-> FALSE]
        ELSE IF c.err
        THEN [panic |-> FALSE, have |-> FALSE, err |-> TRUE, stored |-> rt,
              created |-> FALSE]
        ELSE IF c.have
        THEN [panic |-> FALSE, have |-> TRUE, err |-> FALSE,
              stored |-> [rt EXCEPT !.port = desired.route.port],
              created |-> FALSE]
        ELSE IF create = "err"
        THEN [panic |-> FALSE, have |-> FALSE, err |-> TRUE, stored |-> rt,
              created |-> FALSE]
        ELSE [panic |-> FALSE, have |-> TRUE, err |-> FALSE,
              stored |-> desired.route, created |-> TRUE]

\* ensureCanaryRoute(service): the desired Route is computed first; then the
\* current Route is returned if there is one, else the desired one is
\* created
ensureCanaryRoute(rt, svc, get, create) ==
    LET desired == desiredCanaryRoute(svc)
        c == currentCanaryRoute(rt, get)
    IN  IF desired.panic
        THEN [panic |-> TRUE, have |-> FALSE, err |-> FALSE, stored |-> rt,
              created |-> FALSE]
        ELSE IF c.err
        THEN [panic |-> FALSE, have |-> FALSE, err |-> TRUE, stored |-> rt,
              created |-> FALSE]
        ELSE IF c.have
        THEN [panic |-> FALSE, have |-> TRUE, err |-> FALSE, stored |-> rt,
              created |-> FALSE]
        ELSE IF create = "err"
        THEN [panic |-> FALSE, have |-> FALSE, err |-> TRUE, stored |-> rt,
              created |-> FALSE]
        ELSE [panic |-> FALSE, have |-> TRUE, err |-> FALSE,
              stored |-> desired.route, created |-> TRUE]

Created(was, kind) == IF was THEN <<kind>> ELSE <<>>

\* a Reconcile request that waits for an API call to answer
\*   pc       the call it waits for
\*   get      the answer to the Get of the resource it is about to create
\*   service  the Service ensureCanaryService returned
\*   did      what it did so far
Request(pc, did) ==
    [pc |-> pc, get |-> "ok", service |-> NoService, did |-> did]

\* the request has made the API call, with this answer, in the ensure
\* function step, which created its resource or not
Did(did, step, call, ans, created) ==
    [did EXCEPT
        !.steps = IF step \in {@[i] : i \in 1..Len(@)} THEN @ ELSE Append(@, step),
        !.calls = Append(@, ApiCall(call, ans)),
        !.created = @ \o Created(created, step)]

\* Reconcile returns
Return(did, err) ==
    /\ rlast' = [did EXCEPT !.err = err]
    /\ reconciling' = <<>>

\* Reconcile goes on to the call pc
Goto(req, pc, did) ==
    /\ reconciling' = <<[req EXCEPT !.pc = pc, !.did = did]>>
    /\ UNCHANGED rlast

\* a Reconcile request is taken from the queue (the controller works on one
\* request at a time) and ensureCanaryNamespace answers
ReconcileStart ==
    /\ ~crashed
    /\ reconciling = <<>>
    /\ \E ans \in ApiAnswers :
         LET n == ensureCanaryNamespace(namespace, ans)
             did == Did(NotReconciled, "namespace", "namespace", ans, n.created)
         IN  /\ namespace' = n.stored
             /\ IF n.err THEN Return(did, TRUE)
                ELSE Goto(Request("deploymentGet", did), "deploymentGet", did)
    /\ UNCHANGED <<count, route, service, last, crashed, deployment, running,
                   stopped, exchanges, cin, cout>>

\* ensureCanaryDeployment: the Get of the Deployment answers; a Create
\* follows exactly when the outcome depends on its answer
ReconcileDeploymentGet ==
    /\ ~crashed
    /\ Len(reconciling) > 0
    /\ reconciling[1].pc = "deploymentGet"
    /\ \E get \in ApiAnswers :
         LET req == [reconciling[1] EXCEPT !.get = get]
             d == ensureCanaryDeployment(deployment, get, "ok")
             did == Did(req.did, "deployment", "deploymentGet", get, FALSE)
         IN  IF d # ensureCanaryDeployment(deployment, get, "err")
             THEN Goto(req, "deploymentCreate", did) /\ UNCHANGED deployment
             ELSE /\ deployment' = d.stored
                  /\ IF d.err \/ ~d.have THEN Return(did, TRUE)
                     ELSE Goto(req, "serviceGet", did)
    /\ UNCHANGED <<count, route, service, last, crashed, namespace, running,
                   stopped, exchanges, cin, cout>>

\* ensureCanaryDeployment: the Create of the Deployment answers
ReconcileDeploymentCreate ==
    /\ ~crashed
    /\ Len(reconciling) > 0
    /\ reconciling[1].pc = "deploymentCreate"
    /\ \E create \in ApiAnswers :
         LET req == reconciling[1]
             d == ensureCanaryDeployment(deployment, req.get, create)
             did == Did(req.did, "deployment", "deploymentCreate", create,
                        d.created)
         IN  /\ deployment' = d.stored
             /\ IF d.err \/ ~d.have THEN Return(did, TRUE)
                ELSE Goto(req, "serviceGet", did)
    /\ UNCHANGED <<count, route, service, last, crashed, namespace, running,
                   stopped, exchanges, cin, cout>>

\* Reconcile has the Service sv: ensureCanaryRoute computes the desired Route
\* from it, which panics for a Service without ports, and then reads the
\* Route
ReadRoute(req, sv, did) ==
    IF ensureCanaryRoute(route, sv, "ok", "ok").panic
    THEN /\ crashed' = TRUE
         /\ rlast' = [did EXCEPT !.steps = Append(@, "route")]
         /\ reconciling' = <<>>
    ELSE /\ Goto([req EXCEPT !.service = sv], "routeGet", did)
         /\ UNCHANGED crashed

\* ensureCanaryService: the Get of the Service answers
ReconcileServiceGet ==
    /\ ~crashed
    /\ Len(reconciling) > 0
    /\ reconciling[1].pc = "serviceGet"
    /\ \E get \in ApiAnswers :
         LET req == [reconciling[1] EXCEPT !.get = get]
             sv == ensureCanaryService(service, get, "ok")
             did == Did(req.did, "service", "serviceGet", get, FALSE)
         IN  IF sv # ensureCanaryService(service, get, "err")
             THEN Goto(req, "serviceCreate", did) /\ UNCHANGED <<service, crashed>>
             ELSE /\ service' = sv.stored
                  /\ IF sv.err \/ ~sv.have
                     THEN Return(did, TRUE) /\ UNCHANGED crashed
                     ELSE ReadRoute(req, sv.service, did)
    /\ UNCHANGED <<count, route, last, namespace, deployment, running,
                   stopped, exchanges, cin, cout>>

\* ensureCanaryService: the Create of the Service answers
ReconcileServiceCreate ==
    /\ ~crashed
    /\ Len(reconciling) > 0
    /\ reconciling[1].pc = "serviceCreate"
    /\ \E create \in ApiAnswers :
         LET req == reconciling[1]
             sv == ensureCanaryService(service, req.get, create)
             did == Did(req.did, "service", "serviceCreate", create, sv.created)
         IN  /\ service' = sv.stored
             /\ IF sv.err \/ ~sv.have
                THEN Return(did, TRUE) /\ UNCHANGED crashed
                ELSE ReadRoute(req, sv.service, did)
    /\ UNCHANGED <<count, route, last, namespace, deployment, running,
                   stopped, exchanges, cin, cout>>

\* ensureCanaryRoute: the Get of the Route answers; Reconcile returns the
\* error of ensureCanaryRoute, if any
ReconcileRouteGet ==
    /\ ~crashed
    /\ Len(reconciling) > 0
    /\ reconciling[1].pc = "routeGet"
    /\ \E get \in ApiAnswers :
         LET req == [reconciling[1] EXCEPT !.get = get]
             r == ensureCanaryRoute(route, req.service, get, "ok")
             read == IF currentCanaryRoute(route, get).have THEN route
                     ELSE NoRoute
             did == [Did(req.did, "route", "routeGet", get, FALSE)
                        EXCEPT !.route0 = read]
         IN  IF r # ensureCanaryRoute(route, req.service, get, "err")
             THEN Goto(req, "routeCreate", did) /\ UNCHANGED route
             ELSE route' = r.stored /\ Return(did, r.err)
    /\ UNCHANGED <<count, service, last, crashed, namespace, deployment,
                   running, stopped, exchanges, cin, cout>>

\* ensureCanaryRoute: the Create of the desired Route answers
ReconcileRouteCreate ==
    /\ ~crashed
    /\ Len(reconciling) > 0
    /\ reconciling[1].pc = "routeCreate"
    /\ \E create \in ApiAnswers :
         LET req == reconciling[1]
             r == ensureCanaryRoute(route, req.service, req.get, create)
             did == Did(req.did, "route", "routeCreate", create, r.created)
         IN  route' = r.stored /\ Return(did, r.err)
    /\ UNCHANGED <<count, service, last, crashed, namespace, deployment,
                   running, stopped, exchanges, cin, cout>>

\* a step of Reconcile
Reconcile ==
    \/ ReconcileStart
    \/ ReconcileDeploymentGet \/ ReconcileDeploymentCreate
    \/ ReconcileServiceGet \/ ReconcileServiceCreate
    \/ ReconcileRouteGet \/ ReconcileRouteCreate

\* the HTTP exchanges of the probes beside a Reconcile: a client timeout, and
\* the canary answering from either of its ports
ReconcileResponses ==
    {r \in Responses :
        \/ r.err = "timeout"
        \/ /\ r.err = "none"
           /\ r.status = 200
           /\ r.body = Marker \o <<"\n">>
           /\ r.header \in {PortString(p) : p \in LoopPorts}}

\* a cluster in which the canary Route does not exist yet; Deployment and
\* Service exist only inside the namespace
InitReconcile ==
    /\ count = 0
    /\ route = NoRoute
    /\ namespace \in BOOLEAN
    /\ deployment \in BOOLEAN
    /\ service \in Services
    /\ namespace \/ (~deployment /\ ~service.exists)
    /\ last = NotRun
    /\ crashed = FALSE
    /\ rlast = NotReconciled
    /\ running = <<>>
    /\ reconciling = <<>>
    /\ stopped = FALSE
    /\ exchanges = ReconcileResponses
    /\ cin = NoCall
    /\ cout = NoResult

\* Reconcile workers, the polling loop and the routing layer, all started by
\* or running beside the same New
NextReconcile ==
    \/ ReconcileStart
    \/ ReconcileDeploymentGet \/ ReconcileDeploymentCreate
    \/ ReconcileServiceGet \/ ReconcileServiceCreate
    \/ ReconcileRouteGet \/ ReconcileRouteCreate
    \/ TickStart \/ TickRoute \/ TickService \/ TickUpdate \/ TickRequest \/ TickReturn
    \/ AdmitRoute

SpecReconcile == InitReconcile /\ [][NextReconcile]_vars

----------------------------------------------------------------------------
(* The polling loop alone *)

NextSteps ==
    TickStart \/ TickRoute \/ TickService \/ TickUpdate \/ TickRequest \/ TickReturn

SpecSteps == Init /\ [][NextSteps]_vars

----------------------------------------------------------------------------
(* Direct calls of updateCanaryRoute with one desired Route *)

\* the Routes the API server can hold
StoredRoutes == Routes \ {NoRoute}

InitApply ==
    /\ count = 0
    /\ route \in StoredRoutes
    /\ service = NoService
    /\ last = NotRun
    /\ crashed = FALSE
    /\ namespace = TRUE
    /\ deployment = FALSE
    /\ rlast = NotReconciled
    /\ running = <<>>
    /\ reconciling = <<>>
    /\ stopped = FALSE
    /\ exchanges = {}
    /\ cin \in {[desired |-> d] : d \in StoredRoutes}
    /\ cout = <<>>

\* updateCanaryRoute(route, desired), the stored Route being the current one
Apply ==
    /\ Len(cout) < MaxApplies
    /\ \E upd \in UpdateAnswers :
         LET u == updateCanaryRoute(route, cin.desired, upd) IN
         /\ route' = u.stored
         /\ cout' = Append(cout, [current |-> route, issued |-> u.issued,
                                  err |-> u.err])
    /\ UNCHANGED <<count, service, last, crashed, namespace, deployment, rlast,
                   running, reconciling, cin, stopped, exchanges>>

NextApply == Apply

SpecApply == InitApply /\ [][NextApply]_vars

----------------------------------------------------------------------------
(* The polling loop until the stop channel is closed *)

\* the stop channel New hands to startCanaryRoutePolling is closed
Stop ==
    /\ ~crashed
    /\ ~stopped
    /\ stopped' = TRUE
    /\ UNCHANGED <<count, route, service, last, crashed, namespace, deployment,
                   rlast, running, reconciling, exchanges, cin, cout>>

NextLive ==
    \/ TickStart \/ TickRoute \/ TickService \/ TickUpdate \/ TickRequest \/ TickReturn
    \/ AdmitRoute \/ Stop

\* wait.Until calls the polling function again one period after it returned,
\* for as long as stop is open
SpecLive == Init /\ [][NextLive]_vars /\ WF_vars(Tick)

----------------------------------------------------------------------------
(* Direct calls of chooseRandomServicePort on a Service and a Route *)

\* variant: updated is the Route passed in, not a copy of it
chooseRandomServicePortInPlace(svc, rt) ==
    {[result |-> o,
      updated |-> IF o.kind = "ok" THEN [rt EXCEPT !.port = o.port] ELSE NoRoute,
      service |-> svc,
      route |-> IF o.kind = "ok" THEN [rt EXCEPT !.port = o.port] ELSE rt] :
        o \in chooseRandomServicePort(svc.ports, rt.port)}

\* chooseRandomServicePort(service, route) with what it leaves behind: the
\* Route it returns (a DeepCopy of route with a new Spec.Port; nil with an
\* error), and the Service and the Route of the caller after the call
chooseRandomServicePortCall(svc, rt) ==
    {[result |-> o,
      updated |-> IF o.kind = "ok" THEN [rt EXCEPT !.port = o.port] ELSE NoRoute,
      service |-> svc,
      route |-> rt] :
        o \in chooseRandomServicePort(svc.ports, rt.port)}

InitChooseCall ==
    /\ count = 0
    /\ route = NoRoute
    /\ service = NoService
    /\ last = NotRun
    /\ crashed = FALSE
    /\ namespace = FALSE
    /\ deployment = FALSE
    /\ rlast = NotReconciled
    /\ running = <<>>
    /\ reconciling = <<>>
    /\ stopped = FALSE
    /\ exchanges = {}
    /\ cin \in {[service |-> [exists |-> TRUE, ports |-> ps], route |-> rt] :
                  ps \in SeqsUpTo(LoopPorts, MaxPorts), rt \in StoredRoutes}
    /\ cout = NoResult

\* one call: cin becomes the arguments as the call leaves them, cout the
\* result together with the arguments as they were
ChooseCall ==
    /\ cout = NoResult
    /\ \E c \in chooseRandomServicePortCall(cin.service, cin.route) :
         /\ cin' = [service |-> c.service, route |-> c.route]
         /\ cout' = [result |-> c.result, updated |-> c.updated,
                     service0 |-> cin.service, route0 |-> cin.route]
    /\ UNCHANGED <<count, route, service, last, crashed, namespace, deployment,
                   rlast, running, reconciling, stopped, exchanges>>

NextChooseCall == ChooseCall

SpecChooseCall == InitChooseCall /\ [][NextChooseCall]_vars

----------------------------------------------------------------------------
(* One Reconcile against any cluster *)

\* any cluster: Deployment, Service and Route exist only inside the
\* namespace; cin keeps the cluster as the request finds it
InitReconcileCall ==
    /\ count = 0
    /\ namespace \in BOOLEAN
    /\ deployment \in BOOLEAN
    /\ service \in Services
    /\ route \in Routes
    /\ namespace \/ (~deployment /\ ~service.exists /\ ~route.exists)
    /\ last = NotRun
    /\ crashed = FALSE
    /\ rlast = NotReconciled
    /\ running = <<>>
    /\ reconciling = <<>>
    /\ stopped = FALSE
    /\ exchanges = {}
    /\ cin = [namespace |-> namespace, deployment |-> deployment,
              service |-> service, route |-> route]
    /\ cout = NoResult

\* the steps of one Reconcile request
ReconcileCall ==
    /\ rlast = NotReconciled
    /\ Reconcile

NextReconcileCall == ReconcileCall

SpecReconcileCall == InitReconcileCall /\ [][NextReconcileCall]_vars

----------------------------------------------------------------------------
(* Direct calls of canaryRouteChanged *)

\* Routes with any name and any Spec: the Routes the test passes (the desired
\* Route, and a copy of it with Spec.To.Name "test") among them
AnyRoutes ==
    {[exists |-> TRUE, name |-> n, host |-> h, subdomain |-> "", path |-> pa,
      to |-> t, alternateBackends |-> a, port |-> p, tls |-> tl,
      wildcardPolicy |-> ""] :
        n \in {CanaryRouteName, "test"}, h \in {"", HostName},
        pa \in {"", "/"}, t \in {CanaryServiceName, "test"},
        a \in {NilList, EmptyList, ListOf(<<"test">>)},
        p \in {IntPort(8080), NoPort}, tl \in {"", "edge"}}

\* canaryRouteChanged(current, expected) with what it leaves behind: its two
\* results, and the two Routes of the caller after the call (it writes to
\* its DeepCopy of current only)
canaryRouteChangedCall(current, expected) ==
    LET c == canaryRouteChanged(current, expected) IN
    [changed |-> c.changed, updated |-> c.updated,
     current |-> current, expected |-> expected]

InitChanged ==
    /\ count = 0
    /\ route = NoRoute
    /\ service = NoService
    /\ last = NotRun
    /\ crashed = FALSE
    /\ namespace = FALSE
    /\ deployment = FALSE
    /\ rlast = NotReconciled
    /\ running = <<>>
    /\ reconciling = <<>>
    /\ stopped = FALSE
    /\ exchanges = {}
    /\ cin \in {[current |-> c, expected |-> e] : c \in AnyRoutes, e \in AnyRoutes}
    /\ cout = NoResult

\* one call: cin becomes the arguments as the call leaves them, cout the
\* results together with the arguments as they were
Changed ==
    /\ cout = NoResult
    /\ LET c == canaryRouteChangedCall(cin.current, cin.expected) IN
         /\ cin' = [current |-> c.current, expected |-> c.expected]
         /\ cout' = [changed |-> c.changed, updated |-> c.updated,
                     current0 |-> cin.current, expected0 |-> cin.expected]
    /\ UNCHANGED <<count, route, service, last, crashed, namespace, deployment,
                   rlast, running, reconciling, stopped, exchanges>>

NextChanged == Changed

SpecChanged == InitChanged /\ [][NextChanged]_vars

----------------------------------------------------------------------------
(* Properties *)

Range(s) == {s[i] : i \in 1..Len(s)}

\* the reachability signals among the calls made on the metrics
Signals(calls) ==
    SelectSeq(calls, LAMBDA c : c.op \in {"SetReachable", "SetUnreachable"})

\* how often op was called
CallsOf(calls, op) == Len(SelectSeq(calls, LAMBDA c : c.op = op))

FetchFailures ==
    {"routeGetErr", "routeNotFound", "serviceGetErr", "serviceNotFound"}

\* the failures testRouteEndpoint reports
FailureClasses ==
    {"RouteNotReady", "DNSFailure", "TransportFailure", "BodyReadFailure",
     "EmptyBody", "UnexpectedBody", "MissingPortHeader", "WrongPortEcho",
     "StatusTimeout", "StatusUnavailable", "StatusUnexpected"}

\* C1: a tick calls rotateRouteEndpoint exactly when it read the Route (and
\* the Service) and began with the counter at six, the number of successful
\* probes since the loop started or last rotated; a tick that begins at six
\* never probes; and a tick that rotates writes a different target port of
\* the Service to the Route, sends no request, publishes no signal and
\* leaves the counter at zero.
C1_RotationExactlyAtSix ==
    /\ count \in 0..RotationPeriod
    /\ (last.rotation # "none") <=>
            (last.fetch = "ok" /\ last.count0 = RotationPeriod)
    /\ last.probed => last.count0 < RotationPeriod
    /\ last.rotation = "rotated" =>
          /\ count = 0
          /\ last.issued
          /\ route.port # last.route0.port
          /\ route.port \in Range(service.ports)
          /\ ~last.probed /\ ~last.sent
          /\ last.calls = <<>>

C1_Witness ==
    /\ last.rotation = "rotated"
    /\ last.count0 = RotationPeriod
    /\ count = 0
    /\ route.port # last.route0.port

\* C2: a tick whose rotation fails (the chooser rejects the Service, or the
\* Update fails) goes on to probe the host and publishes one reachability
\* signal.
C2_RotationFailureFallsThrough ==
    last.rotation \in {"chooseErr", "applyErr"} =>
        last.probed /\ Len(Signals(last.calls)) = 1

\* C3: a tick whose probe is StatusOK leaves the counter one higher than it
\* found it, and a tick whose probe is any failure leaves it as it found it.
C3_CountsOnlySuccesses ==
    /\ (last.probed /\ last.class = "StatusOK") => count = last.count0 + 1
    /\ (last.probed /\ last.class \in FailureClasses) => count = last.count0

C3_Witness ==
    /\ last.probed
    /\ last.class \in FailureClasses
    /\ last.count0 = 3
    /\ count = 3

\* C4 as stated: a tick that sent a probe publishes exactly one reachability
\* signal, for the probed host, SetReachable exactly when the probe is
\* StatusOK.
C4_OneSignalPerProbe ==
    last.sent =>
        LET sg == Signals(last.calls) IN
        /\ Len(sg) = 1
        /\ sg[1].host = last.route0.host
        /\ (sg[1].op = "SetReachable") <=> (last.class = "StatusOK")

\* C5: a tick that returns after its Update failed leaves the counter at
\* six and the stored Route with its previous target port, and the next
\* tick that reads the Route and the Service calls rotateRouteEndpoint
\* again.
C5_ApplyFailureIsRetried ==
    [][ /\ (running # <<>> /\ running' = <<>>
              /\ last'.rotation = "applyErr") =>
              /\ last'.issued
              /\ count' = RotationPeriod
              /\ route'.port = last'.route0.port
              /\ ~crashed'
        /\ (last.rotation = "applyErr" /\ last' # last) =>
              /\ last'.count0 = RotationPeriod
              /\ ~last'.probed
              /\ last'.fetch = "ok" => last'.rotation # "none" ]_vars

C5_Witness ==
    /\ last.rotation = "applyErr"
    /\ last.issued
    /\ count = RotationPeriod
    /\ route = last.route0

\* C6: a tick that fails to read the Route, or at the rotation boundary the
\* Service, changes neither the counter nor the Route, calls neither
\* rotateRouteEndpoint nor testRouteEndpoint, publishes nothing, and leaves
\* the loop able to run its next tick. (The steps of a run before its
\* Update leave the counter and the Route alone; the step in which the read
\* fails ends the run.)
C6_FetchFailureAbortsTick ==
    /\ [](last.fetch \in FetchFailures => ENABLED Tick)
    /\ [][ (running' # running /\ running' # <<>>
              /\ running'[1].pc # "return") =>
                (count' = count /\ route' = route /\ last' = last) ]_vars
    /\ [][ (last'.fetch \in FetchFailures /\ last' # last) =>
              /\ running' = <<>>
              /\ count' = count
              /\ route' = route
              /\ ~crashed'
              /\ last'.rotation = "none" /\ ~last'.issued
              /\ ~last'.probed /\ ~last'.sent
              /\ last'.calls = <<>>
              /\ last'.fetch = "routeNotFound" => ~route.exists
              /\ last'.fetch \in {"serviceGetErr", "serviceNotFound"} =>
                    count = RotationPeriod
              /\ last'.fetch = "serviceNotFound" => ~service.exists ]_vars

C6_Witness ==
    /\ last.fetch = "serviceNotFound"
    /\ last.count0 = RotationPeriod
    /\ count = RotationPeriod
    /\ route = last.route0

\* C7 as stated: for a port list of length at least 2 and any current port
\* the call succeeds with a port of the list other than the current one.
C7_AnyTwoPorts ==
    (cout # NoResult /\ Len(cin.ports) >= 2 /\ cin.port # NoPort) =>
        /\ cout.kind = "ok"
        /\ cout.port \in Range(cin.ports)
        /\ cout.port # cin.port

\* C7 amended: for a port list of length at least 2 that holds a port other
\* than the current one, the call succeeds with a port of the list other
\* than the current one.
C7_ReturnsAnotherPort ==
    (/\ cout # NoResult
     /\ Len(cin.ports) >= 2
     /\ cin.port # NoPort
     /\ \E p \in Range(cin.ports) : p # cin.port) =>
        /\ cout.kind = "ok"
        /\ cout.port \in Range(cin.ports)
        /\ cout.port # cin.port

C7_Witness ==
    /\ cout.kind = "ok"
    /\ cin.port \in Range(cin.ports)
    /\ cout.port \in Range(cin.ports)
    /\ cout.port # cin.port

\* C8: when the port list holds more than one distinct port, the call
\* returns a port other than the current one, however often the current
\* port occurs in the list.
C8_DiffersDespiteDuplicates ==
    (/\ cout # NoResult
     /\ Cardinality(Range(cin.ports)) > 1
     /\ cin.port # NoPort) =>
        /\ cout.kind = "ok"
        /\ cout.port # cin.port

C8_Witness ==
    /\ cout.kind = "ok"
    /\ Cardinality({i \in 1..Len(cin.ports) : cin.ports[i] = cin.port}) >= 2
    /\ cout.port # cin.port

\* C9 as stated: the call returns the no-ports error exactly for the empty
\* list, the one-port error exactly for a list of one, and returns without
\* error for every other input.
C9_ErrorsExactlyForShortLists ==
    cout # NoResult =>
        /\ (cout = ChooseErr("Service has no ports")) <=> (Len(cin.ports) = 0)
        /\ (cout = ChooseErr("Service has only one port, no change possible"))
              <=> (Len(cin.ports) = 1)
        /\ Len(cin.ports) >= 2 => cout.kind = "ok"

\* C10 as stated: status 200, a body holding the marker and a request-port
\* header that differs from the route's printed target port make the probe a
\* WrongPortEcho: one increment of the counter, and the host unreachable.
C10_MismatchIsWrongPortEcho ==
    (/\ last.probed /\ last.sent
     /\ last.resp.err = "none"
     /\ last.resp.status = 200
     /\ Contains(last.resp.body, Marker)
     /\ Len(last.resp.header) > 0
     /\ last.route0.port # NoPort
     /\ last.resp.header # PortString(last.route0.port)) =>
        /\ last.class = "WrongPortEcho"
        /\ CallsOf(last.calls, "WrongPortEchoInc") = 1
        /\ Signals(last.calls) = <<Call("SetUnreachable", last.route0.host)>>

\* the classification by status code
StatusClass(status) ==
    CASE status = 200 -> "StatusOK"
      [] status = 408 -> "StatusTimeout"
      [] status = 503 -> "StatusUnavailable"
      [] OTHER -> "StatusUnexpected"

\* the first of the six listed conditions that applies to a response: error
\* of the request, empty body, body without the marker, request-port header
\* that differs from the route's printed target port, status code
FirstListedCondition(rt, resp) ==
    IF resp.err = "dns" THEN "DNSFailure"
    ELSE IF resp.err # "none" THEN "TransportFailure"
    ELSE IF Len(resp.body) = 0 THEN "EmptyBody"
    ELSE IF ~Contains(resp.body, Marker) THEN "UnexpectedBody"
    ELSE IF resp.header # PortString(rt.port) THEN "WrongPortEcho"
    ELSE StatusClass(resp.status)

\* C11 as stated: a probe of a Route without a host is RouteNotReady; a probe
\* that got an error from the request, or a response that carries a
\* request-port header, for a Route with a target port, is classified by the
\* first of the listed conditions that applies, and the wedged-router counter
\* is incremented exactly when that is WrongPortEcho.
C11_FirstConditionClassifies ==
    /\ (last.probed /\ last.route0.host = "") => last.class = "RouteNotReady"
    /\ (/\ last.probed /\ last.sent
        /\ last.resp.err # "read"
        /\ last.resp.err = "none" => Len(last.resp.header) > 0
        /\ last.route0.port # NoPort) =>
          /\ last.class = FirstListedCondition(last.route0, last.resp)
          /\ CallsOf(last.calls, "WrongPortEchoInc") =
                IF last.class = "WrongPortEcho" THEN 1 ELSE 0

\* C12: a probe answered with status 200, a body holding the marker and a
\* request-port header equal to the route's printed target port is StatusOK:
\* testRouteEndpoint returns true after recording one latency sample for the
\* host and without incrementing the wedged-router counter, and the loop
\* publishes the host reachable.
C12_MatchingProbeIsStatusOK ==
    (/\ last.probed /\ last.sent
     /\ last.resp.err = "none"
     /\ last.resp.status = 200
     /\ Contains(last.resp.body, Marker)
     /\ last.route0.port # NoPort
     /\ last.resp.header = PortString(last.route0.port)) =>
        /\ last.class = "StatusOK"
        /\ last.success
        /\ ~crashed
        /\ CallsOf(last.calls, "ObserveLatency") = 1
        /\ CallsOf(last.calls, "WrongPortEchoInc") = 0
        /\ last.calls = <<Call("ObserveLatency", last.route0.host),
                          Call("SetReachable", last.route0.host)>>

C12_Witness ==
    /\ last.probed /\ last.success
    /\ last.resp.status = 200
    /\ last.resp.header = PortString(IntPort(8888))
    /\ last.route0.port = IntPort(8888)
    /\ last.calls = <<Call("ObserveLatency", HostName),
                      Call("SetReachable", HostName)>>

\* the ten classifications listed for a probe
ListedClasses ==
    {"RouteNotReady", "DNSFailure", "TransportFailure", "EmptyBody",
     "UnexpectedBody", "WrongPortEcho", "StatusOK", "StatusTimeout",
     "StatusUnavailable", "StatusUnexpected"}

\* C13 as stated: every probe ends in one of the ten listed classifications,
\* and a response whose body holds the marker and that carries no
\* request-port header is classified by its status code, without an
\* increment of the wedged-router counter.
C13_TenClassesHeaderOptional ==
    last.probed =>
        /\ last.class \in ListedClasses
        /\ (/\ last.sent
            /\ last.resp.err = "none"
            /\ Contains(last.resp.body, Marker)
            /\ Len(last.resp.header) = 0) =>
              /\ last.class = StatusClass(last.resp.status)
              /\ CallsOf(last.calls, "WrongPortEchoInc") = 0

\* the response passed the body checks and the port check of a Route that
\* has a target port
PassedBodyAndPort(rt, resp) ==
    /\ resp.err = "none"
    /\ Contains(resp.body, Marker)
    /\ Len(resp.header) > 0
    /\ rt.port # NoPort
    /\ PortMatches(PortString(rt.port), resp.header)

\* C14: a probe whose response passed the body and port checks is classified
\* by its status code alone, 200 being the only success, 408 StatusTimeout,
\* 503 StatusUnavailable and any other code StatusUnexpected; and a probe
\* records a latency sample exactly when it succeeds, which it does only
\* with status 200.
C14_StatusDecides ==
    last.probed =>
        /\ (last.sent /\ PassedBodyAndPort(last.route0, last.resp)) =>
              /\ last.class = StatusClass(last.resp.status)
              /\ last.success <=> (last.resp.status = 200)
        /\ last.success => (last.class = "StatusOK" /\ last.resp.status = 200)
        /\ CallsOf(last.calls, "ObserveLatency") =
              IF last.success THEN 1 ELSE 0
        /\ last.class \in FailureClasses =>
              /\ ~last.success
              /\ CallsOf(last.calls, "ObserveLatency") = 0

C14_Witness ==
    /\ last.probed /\ last.sent
    /\ PassedBodyAndPort(last.route0, last.resp)
    /\ last.resp.status = 404
    /\ last.class = "StatusUnexpected"
    /\ last.calls = <<Call("SetUnreachable", HostName)>>

\* C15: a probe whose request fails is DNSFailure exactly when the error is
\* a DNS resolution error and TransportFailure otherwise; either way
\* testRouteEndpoint returns false, records no latency sample and leaves the
\* wedged-router counter alone, and the loop publishes the host unreachable
\* and does not count the probe.
C15_DNSFailureIsDistinct ==
    (last.probed /\ last.sent
        /\ last.resp.err \in {"dns", "refused", "timeout"}) =>
        /\ (last.class = "DNSFailure") <=> (last.resp.err = "dns")
        /\ (last.class = "TransportFailure") <=> (last.resp.err # "dns")
        /\ ~last.success
        /\ CallsOf(last.calls, "ObserveLatency") = 0
        /\ CallsOf(last.calls, "WrongPortEchoInc") = 0
        /\ last.calls = <<Call("SetUnreachable", last.route0.host)>>
        /\ count = last.count0
        /\ ~crashed

C15_Witness ==
    /\ last.probed /\ last.sent
    /\ last.resp.err = "dns"
    /\ last.class = "DNSFailure"
    /\ last.calls = <<Call("SetUnreachable", HostName)>>

\* C16: a probe of a Route whose host is empty is RouteNotReady whatever the
\* Route's target port is (a Route without a port included):
\* testRouteEndpoint returns false without sending a request and without a
\* call on the latency or wedged-router metrics, so that the only call of
\* the tick is the loop's own SetUnreachable for the empty host.
C16_EmptyHostFailsFast ==
    (last.probed /\ last.route0.host = "") =>
        /\ last.class = "RouteNotReady"
        /\ ~last.success
        /\ ~last.sent
        /\ last.resp = NoResponse
        /\ last.calls = <<Call("SetUnreachable", "")>>
        /\ count = last.count0
        /\ ~crashed

C16_Witness ==
    /\ last.probed
    /\ last.route0.host = ""
    /\ last.route0.port = NoPort
    /\ last.class = "RouteNotReady"
    /\ ~last.sent
    /\ ~crashed

\* C17 as stated: no tick is fatal: whatever Route and Service a tick reads,
\* neither chooseRandomServicePort nor testRouteEndpoint panics, and the
\* polling goroutine is alive for its next tick.
C17_NoTickIsFatal ==
    /\ last.rotation # "panic"
    /\ last.class # "panic"
    /\ ~crashed

\* C18: once Reconcile has created the canary Route from the Service, and
\* through every rotation of the polling loop against that Service, the
\* Route's target port is the target port of one of the Service's ports.
C18_RoutePortIsServicePort ==
    route.exists =>
        /\ service.exists
        /\ route.port \in Range(service.ports)

C18_Witness ==
    /\ "route" \in Range(rlast.created)
    /\ last.rotation = "rotated"
    /\ route.exists
    /\ route.port # service.ports[1]
    /\ route.port \in Range(service.ports)

\* C19: at most one run of the polling function is in progress at any time,
\* and hence at most one probe; a run sends at most one HTTP request and
\* never both updates the Route and sends a request; and a tick that
\* rotated has neither called testRouteEndpoint nor sent a request.
C19_RotationAndProbeExclusive ==
    /\ Len(running) <= 1
    /\ \A i \in 1..Len(running) :
          /\ running[i].reqs <= 1
          /\ running[i].upds <= 1
          /\ ~(running[i].upds > 0 /\ running[i].reqs > 0)
          /\ running[i].reqs > 0 <=> running[i].pc = "response"
          /\ running[i].upds > 0 <=> running[i].pc = "return"
          /\ running[i].pc = "return" =>
                (~running[i].out.last.probed /\ ~running[i].out.last.sent)
    /\ last.rotation = "rotated" => (~last.probed /\ ~last.sent)
    /\ last.sent => (last.probed /\ last.rotation = "none" /\ ~last.issued)

C19_Witness ==
    /\ Len(running) = 1
    /\ running[1].pc = "return"
    /\ running[1].out.last.rotation = "rotated"
    /\ running[1].upds = 1
    /\ running[1].reqs = 0
    /\ last.sent

\* C20: once a call of updateCanaryRoute with a desired Route has returned
\* without error, the stored Route has the desired Spec, canaryRouteChanged
\* finds no change between the two, and no later call with the same desired
\* Route issues an Update.
C20_ApplyIsIdempotent ==
    \A i \in 1..Len(cout) :
        ~cout[i].err =>
            /\ RouteSpec(route) = RouteSpec(cin.desired)
            /\ ~canaryRouteChanged(route, cin.desired).changed
            /\ \A j \in (i + 1)..Len(cout) :
                  /\ ~cout[j].issued
                  /\ ~cout[j].err
                  /\ cout[j].current = cout[i + 1].current

C20_Witness ==
    /\ Len(cout) = 2
    /\ cout[1].issued /\ ~cout[1].err
    /\ RouteSpec(cout[1].current) # RouteSpec(cin.desired)
    /\ ~cout[2].issued
    /\ RouteSpec(route) = RouteSpec(cin.desired)

\* C21 as stated: once a tick has returned, whatever its outcome, the next
\* tick can start for as long as the stop channel is open, and not once it
\* is closed.
C21_TicksUntilStopped ==
    running = <<>> => ((ENABLED TickStart) <=> ~stopped)

\* the target ports a call can return
Returnable(servicePorts, currentPort) ==
    {o.port : o \in {x \in chooseRandomServicePort(servicePorts, currentPort) :
                        x.kind = "ok"}}

\* C22: for a port list of length at least 2 and a current port, the ports
\* the call can return are exactly the ports of the list other than the
\* current one, and a call that returned has returned one of them.
C22_ReturnsExactlyTheOthers ==
    (Len(cin.ports) >= 2 /\ cin.port # NoPort) =>
        /\ Returnable(cin.ports, cin.port) = Range(cin.ports) \ {cin.port}
        /\ cout.kind = "ok" => cout.port \in Range(cin.ports) \ {cin.port}
        /\ (cout.kind = "ok" /\ Cardinality(Range(cin.ports) \ {cin.port}) = 1)
              => Range(cin.ports) \ {cin.port} = {cout.port}

C22_Witness ==
    /\ cin.ports = <<IntPort(8080), IntPort(8888), IntPort(80)>>
    /\ cin.port = IntPort(8080)
    /\ cout = ChooseOk(IntPort(80))
    /\ ChooseOk(IntPort(8888)) \in chooseRandomServicePort(cin.ports, cin.port)

\* C23: a call of chooseRandomServicePort leaves the Service and the Route
\* it was given as they were, whether it returns a Route, an error or
\* panics; a Route it returns is the given Route with another target port
\* and nothing else changed.
C23_ChooserLeavesInputsAlone ==
    cout # NoResult =>
        /\ cin.service = cout.service0
        /\ cin.route = cout.route0
        /\ cout.result.kind = "ok" =>
              /\ cout.updated = [cout.route0 EXCEPT !.port = cout.result.port]
              /\ cout.updated.host = cout.route0.host
              /\ cout.updated.port # cout.route0.port
        /\ cout.result.kind # "ok" => cout.updated = NoRoute

C23_Witness ==
    /\ cout # NoResult
    /\ cout.result.kind = "ok"
    /\ cout.route0.host = HostName
    /\ cout.updated.port # cout.route0.port
    /\ cin.route = cout.route0

\* C24: no step of a Reconcile changes a canary Route that exists, the
\* target port the loop rotated it to included, whatever the polling loop
\* and the routing layer do between its steps; and a Reconcile that read the
\* Route has called no Create for it. (The steps that write reconciling or
\* rlast are those of Reconcile.)
C24_ReconcileKeepsExistingRoute ==
    [][ (reconciling' # reconciling \/ rlast' # rlast) =>
            /\ route.exists => route' = route
            /\ rlast'.route0.exists =>
                  /\ "route" \notin Range(rlast'.created)
                  /\ \A i \in 1..Len(rlast'.calls) :
                        rlast'.calls[i].call # "routeCreate" ]_vars

C24_Witness ==
    /\ rlast.steps = <<"namespace", "deployment", "service", "route">>
    /\ ~rlast.err
    /\ rlast.route0.exists
    /\ rlast.route0.port # service.ports[1]
    /\ route = rlast.route0
    /\ running # <<>>

\* the case of C25: the stop channel is open, the last tick did not fail to
\* read the Route, the Service has exactly one port, and the Route has a
\* host and a target port
RotationImpossible ==
    /\ ~stopped
    /\ last.fetch \notin {"routeGetErr", "routeNotFound"}
    /\ service.exists /\ Len(service.ports) = 1
    /\ route.exists /\ route.host # "" /\ route.port # NoPort

\* C25 as stated: while the stop channel stays open, no tick fails to read
\* the Route and the Service has exactly one port, the loop publishes a
\* reachability signal again and again.
C25_SignalStaysAvailable ==
    []RotationImpossible => []<>(Signals(last.calls) # <<>>)

\* C26: the counter is 0 when the loop starts and always between 0 and 6;
\* a step changes it only by adding one, in a tick whose probe succeeded,
\* or by resetting it to 0, in a tick that rotated; a tick probes only when
\* it begins with the counter below 6; and a Reconcile or the admission of
\* the Route leaves it alone.
C26_CounterStaysInRange ==
    [][ /\ last = NotRun => count = 0
        /\ count \in 0..RotationPeriod /\ count' \in 0..RotationPeriod
        /\ last'.probed => last'.count0 < RotationPeriod
        /\ count' # count =>
              \/ /\ count' = count + 1
                 /\ last'.probed /\ last'.success
                 /\ last'.count0 = count
              \/ /\ count' = 0
                 /\ last'.rotation = "rotated"
                 /\ last'.count0 = count
        /\ last' = last => count' = count ]_vars

C26_Witness ==
    /\ count = RotationPeriod
    /\ last.probed /\ last.success
    /\ last.count0 = RotationPeriod - 1
    /\ rlast.steps # <<>>

EnsureOrder == <<"namespace", "deployment", "service", "route">>

\* the API calls of a Reconcile in the order of the code, and the ensure
\* function that makes each
CallOrder ==
    <<"namespace", "deploymentGet", "deploymentCreate", "serviceGet",
      "serviceCreate", "routeGet", "routeCreate">>
Position(call) == CHOOSE i \in 1..Len(CallOrder) : CallOrder[i] = call
StepOf(call) == EnsureOrder[(Position(call) \div 2) + 1]

\* whether the call was made, and whether it was made and answered
Called(calls, call) == \E i \in 1..Len(calls) : calls[i].call = call
Answered(calls, call) == ApiCall(call, "ok") \in Range(calls)

\* C27: a Reconcile makes its API calls in the order namespace, Deployment,
\* Service, Route; the first call that fails is its last, and it returns an
\* error exactly then; the resources of later steps are neither read nor
\* created; and a step calls Create exactly when its read answered and
\* found nothing, and has created its resource exactly when that Create
\* answered.
C27_EnsuresInOrder ==
    rlast # NotReconciled =>
        LET calls == rlast.calls
            n == Len(rlast.steps)
            made == Range(rlast.created)
        IN  /\ rlast.steps = SubSeq(EnsureOrder, 1, n)
            /\ Len(calls) > 0
            /\ \A i, j \in 1..Len(calls) :
                  i < j => Position(calls[i].call) < Position(calls[j].call)
            /\ \A i \in 1..(Len(calls) - 1) : calls[i].ans = "ok"
            /\ ~crashed => (rlast.err <=> calls[Len(calls)].ans = "err")
            /\ ~crashed => Range(rlast.steps) =
                              {StepOf(calls[i].call) : i \in 1..Len(calls)}
            /\ (~crashed /\ ~rlast.err) =>
                  (n = 4 /\ namespace /\ deployment /\ service.exists
                     /\ route.exists)
            /\ n < 2 => deployment = cin.deployment
            /\ n < 3 => service = cin.service
            /\ (n < 4 \/ crashed) => route = cin.route
            /\ Called(calls, "deploymentCreate") <=>
                  (Answered(calls, "deploymentGet") /\ ~cin.deployment)
            /\ Called(calls, "serviceCreate") <=>
                  (Answered(calls, "serviceGet") /\ ~cin.service.exists)
            /\ Called(calls, "routeCreate") <=>
                  (Answered(calls, "routeGet") /\ ~cin.route.exists)
            /\ "deployment" \in made <=> Answered(calls, "deploymentCreate")
            /\ "service" \in made <=> Answered(calls, "serviceCreate")
            /\ "route" \in made <=> Answered(calls, "routeCreate")
            /\ deployment <=>
                  (cin.deployment \/ Answered(calls, "deploymentCreate"))
            /\ service.exists <=>
                  (cin.service.exists \/ Answered(calls, "serviceCreate"))
            /\ route.exists <=>
                  (cin.route.exists \/ Answered(calls, "routeCreate"))

C27_Witness ==
    /\ rlast.steps = <<"namespace", "deployment", "service">>
    /\ rlast.err
    /\ rlast.calls[Len(rlast.calls)] = ApiCall("serviceGet", "err")
    /\ rlast.created = <<"deployment">>
    /\ ~service.exists /\ ~route.exists

\* C28: a tick increments the wedged-router counter once when its probe is
\* a WrongPortEcho, and not at all otherwise: not when a read fails, not in
\* a tick at the rotation boundary, and not when the probe succeeds or is
\* any other failure.
C28_OnlyWrongPortEchoCounts ==
    /\ CallsOf(last.calls, "WrongPortEchoInc") =
          IF last.probed /\ last.class = "WrongPortEcho" THEN 1 ELSE 0
    /\ last.class = "WrongPortEcho" =>
          /\ last.probed /\ last.sent
          /\ Len(last.resp.header) > 0
          /\ last.resp.header # PortString(last.route0.port)

C28_Witness ==
    /\ last.probed /\ last.sent
    /\ last.class = "MissingPortHeader"
    /\ last.resp.status = 503
    /\ last.calls = <<Call("SetUnreachable", HostName)>>

\* two slices differ, an empty one and a nil one counted equal
ListsDiffer(a, b) ==
    ~(Len(a.items) = 0 /\ Len(b.items) = 0) /\ a # b

\* C29: canaryRouteChanged reports a change exactly when some field of the
\* Specs of the two Routes differs, an empty list and an absent one counted
\* equal; with a change it returns current's name with expected's Spec,
\* without one it returns no Route; and it leaves both Routes it was given
\* as they were.
C29_ChangedIffSpecsDiffer ==
    cout # NoResult =>
        LET c == cout.current0
            e == cout.expected0
        IN  /\ cout.changed <=>
                  \/ \E f \in SpecFields \ {"alternateBackends"} : c[f] # e[f]
                  \/ ListsDiffer(c.alternateBackends, e.alternateBackends)
            /\ cout.changed =>
                  /\ cout.updated.exists
                  /\ cout.updated.name = c.name
                  /\ \A f \in SpecFields : cout.updated[f] = e[f]
            /\ ~cout.changed => cout.updated = NoRoute
            /\ cin.current = c
            /\ cin.expected = e

C29_Witness ==
    /\ cout # NoResult
    /\ ~cout.changed
    /\ cout.current0.alternateBackends = NilList
    /\ cout.expected0.alternateBackends = EmptyList
    /\ cout.current0.name # cout.expected0.name
    /\ cout.updated = NoRoute

\* the second case of the test: a copy of the desired Route with another
\* Spec.To.Name is a change, and the Route returned keeps the name
C29_WitnessSpecTo ==
    /\ cout # NoResult
    /\ cout.current0 = CanaryRoute("", IntPort(8080))
    /\ cout.expected0 = [cout.current0 EXCEPT !.to = "test"]
    /\ cout.changed
    /\ cout.updated = cout.expected0
    /\ ~canaryRouteChanged(cout.expected0, cout.updated).changed

====
